---------------------------- MODULE Spec2Model ----------------------------
(***************************************************************************)
(* A model of the utah dataframe (src/src/dataframe.rs): the DataFrame     *)
(* constructors, the axis iterators, the select / remove / append / concat *)
(* transform adapters, the joins, the aggregates and impute, with the      *)
(* properties the specification states about them.                         *)
(*                                                                         *)
(* A matrix is a record [nr, nc, at]: its shape and its cells, at[i][j]     *)
(* being the cell of row i and column j (1-based here, 0-based in the      *)
(* code).  A label is a string.  A view of a row or a column is the        *)
(* sequence of the cells it shows.                                         *)
(***************************************************************************)
EXTENDS Integers, Sequences, FiniteSets, TLC

\* ------------------------------------------------------------------------
\* Bounds of the model
\* ------------------------------------------------------------------------

\* The largest number of rows and of columns of an input matrix.
MaxDim == 2

\* The longest list of names handed to select / remove.
MaxNames == 2

\* How many times an exhausted iterator is pulled again.
MaxExtraPulls == 2

\* ------------------------------------------------------------------------
\* Values and labels
\* ------------------------------------------------------------------------

\* A floating-point NaN as it arrives in an input matrix.
NaN == -1

\* T::empty(): the missing-data value of the cell type.
Missing == -2

\* x.is_empty(): the cell holds no data.
is_empty(x) == x < 0

\* T::from: numeric conversions keep the number, a NaN stays an empty value.
TFrom(u) == u

\* The label universe of the callers' label lists.
LabelSet == {"a", "b"}

Digit(d) ==
    CASE d = 0 -> "0" [] d = 1 -> "1" [] d = 2 -> "2" [] d = 3 -> "3"
      [] d = 4 -> "4" [] d = 5 -> "5" [] d = 6 -> "6" [] d = 7 -> "7"
      [] d = 8 -> "8" [] d = 9 -> "9"

RECURSIVE to_string(_)
\* usize::to_string: the decimal rendering of a natural number.
to_string(n) ==
    IF n < 10 THEN Digit(n) ELSE to_string(n \div 10) \o Digit(n % 10)

\* (0..n).map(|x| x.to_string().into()).collect(): the labels "0" .. "n-1".
RangeLabels(n) == [i \in 1..n |-> to_string(i - 1)]

\* All sequences over S of length at most n.
SeqsUpTo(S, n) == UNION {[1..k -> S] : k \in 0..n}

\* ------------------------------------------------------------------------
\* Matrices
\* ------------------------------------------------------------------------

\* Input matrices: every cell differs from every other, so that a view tells
\* which row or column it shows; the second family has a NaN in its corner.
Seeds == {0, 1}

Cell(i, j, s) == IF s = 1 /\ i = 1 /\ j = 1 THEN NaN ELSE 10 * i + j

MkMatrix(r, c, s) ==
    [nr |-> r, nc |-> c, at |-> [i \in 1..r |-> [j \in 1..c |-> Cell(i, j, s)]]]

Matrices == {MkMatrix(r, c, s) : r \in 0..MaxDim, c \in 0..MaxDim, s \in Seeds}

\* Input one-dimensional arrays.
Arrays == {[j \in 1..n |-> Cell(1, j, s)] : n \in 0..MaxDim, s \in Seeds}

\* data.shape()[0], data.shape()[1]
Shape(m) == <<m.nr, m.nc>>

\* The view of row i (Axis(0)) or of column j (Axis(1)).
RowOf(m, i) == m.at[i]

ColumnOf(m, j) == [i \in 1..m.nr |-> m.at[i][j]]

\* data.axis_iter(Axis(0)) / data.axis_iter(Axis(1)): the views in order.
axis_iter(m, ax) ==
    IF ax = 0 THEN [i \in 1..m.nr |-> RowOf(m, i)]
              ELSE [j \in 1..m.nc |-> ColumnOf(m, j)]

\* ------------------------------------------------------------------------
\* DataFrame: constructors (impl Constructor for DataFrame)
\* ------------------------------------------------------------------------

\* UtahAxis
Axes == {"Row", "Column"}

\* struct DataFrame { columns, data, index }
DataFrame(columns_, data_, index_) ==
    [columns |-> columns_, data |-> data_, index |-> index_]

\* Result<DataFrame>: Ok(df), or Err(kind(expected, got)); an Err keeps in df
\* the receiver as it was when the call returned and dropped it.
Ok(frame) == [ok |-> TRUE, err |-> "none", args |-> <<>>, df |-> frame]

Err(kind, expected, got, self) ==
    [ok |-> FALSE, err |-> kind, args |-> <<expected, got>>, df |-> self]

\* No frame: the frame was moved into a call that returned Err and dropped it.
NoFrame == [moved |-> TRUE]

\* data.mapv(T::from)
mapv_from(m) ==
    [m EXCEPT !.at = [i \in 1..m.nr |-> [j \in 1..m.nc |-> TFrom(m.at[i][j])]]]

\* data.mapv_into(|x| if x.is_empty() { T::empty() } else { x })
mapv_into_empty(m) ==
    [m EXCEPT !.at = [i \in 1..m.nr |-> [j \in 1..m.nc |->
                        IF is_empty(m.at[i][j]) THEN Missing ELSE m.at[i][j]]]]

\* new with the labels counted from one, as its documentation has them.
new_from_one(data) ==
    LET d2 == mapv_into_empty(mapv_from(data))
    IN  DataFrame([i \in 1..Shape(d2)[2] |-> to_string(i)], d2,
                  [i \in 1..Shape(d2)[1] |-> to_string(i)])

\* DataFrame::new
new(data) ==
    LET d1 == mapv_from(data)
        d2 == mapv_into_empty(d1)
    IN  DataFrame(RangeLabels(Shape(d2)[2]), d2, RangeLabels(Shape(d2)[1]))

\* Row::into_shape(res_dim)
into_shape(data, res_dim) ==
    [nr |-> res_dim[1], nc |-> res_dim[2],
     at |-> [i \in 1..res_dim[1] |->
                [j \in 1..res_dim[2] |-> data[(i - 1) * res_dim[2] + j]]]]

\* DataFrame::from_array
from_array(data, axis) ==
    LET res_dim == IF axis = "Column" THEN <<Len(data), 1>> ELSE <<1, Len(data)>>
        d1 == mapv_from(into_shape(data, res_dim))
        d2 == mapv_into_empty(d1)
    IN  DataFrame(RangeLabels(res_dim[2]), d2, RangeLabels(res_dim[1]))

\* columns without its length check.
columns_unchecked(self, cols) == Ok([self EXCEPT !.columns = cols])

\* columns rejecting only a list that is too short.
columns_short_only(self, cols) ==
    LET data_shape == Shape(self.data)[2]
        column_shape == Len(cols)
    IN  IF column_shape < data_shape
        THEN Err("ColumnShapeMismatch", to_string(data_shape),
                 to_string(column_shape), self)
        ELSE Ok([self EXCEPT !.columns = cols])

\* DataFrame::columns
columns(self, cols) ==
    LET data_shape == Shape(self.data)[2]
        column_shape == Len(cols)
    IN  IF column_shape # data_shape
        THEN Err("ColumnShapeMismatch", to_string(data_shape),
                 to_string(column_shape), self)
        ELSE Ok([self EXCEPT !.columns = cols])

\* index checking the list against the number of columns.
index_by_columns(self, idx) ==
    LET data_shape == Shape(self.data)[2]
        index_shape == Len(idx)
    IN  IF index_shape # data_shape
        THEN Err("IndexShapeMismatch", to_string(data_shape),
                 to_string(index_shape), self)
        ELSE Ok([self EXCEPT !.index = idx])

\* DataFrame::index
index(self, idx) ==
    LET data_shape == Shape(self.data)[1]
        index_shape == Len(idx)
    IN  IF index_shape # data_shape
        THEN Err("IndexShapeMismatch", to_string(data_shape),
                 to_string(index_shape), self)
        ELSE Ok([self EXCEPT !.index = idx])

\* struct MutableDataFrame { columns, data, index }: data is a view of a matrix.
MutableDataFrame(columns_, data_, index_) ==
    [columns |-> columns_, data |-> data_, index |-> index_]

\* to_df leaving the labels new gave.
to_df_default_labels(self) == Ok(new(self.data))

\* MutableDataFrame::to_df: new(d).columns(..)?.index(..)?, d a copy of the
\* viewed cells.
to_df(self) ==
    LET d == self.data
        r1 == columns(new(d), self.columns)
    IN  IF ~r1.ok THEN r1 ELSE index(r1.df, self.index)

\* ------------------------------------------------------------------------
\* Axis iterators
\* ------------------------------------------------------------------------

\* Option<(S, RowView)>
None == [some |-> FALSE]

Some(label_, view_) == [some |-> TRUE, label |-> label_, view |-> view_]

\* The sequence from its last element to its first.
Reversed(seq) == [i \in 1..Len(seq) |-> seq[Len(seq) + 1 - i]]

\* df_iter walking the axis from its end.
df_iter_reversed(self, axis) ==
    IF axis = "Row"
    THEN [kind |-> "iter", names |-> Reversed(self.index),
          data |-> Reversed(axis_iter(self.data, 0)),
          other |-> self.columns, axis |-> "Row"]
    ELSE [kind |-> "iter", names |-> Reversed(self.columns),
          data |-> Reversed(axis_iter(self.data, 1)),
          other |-> self.index, axis |-> "Column"]

\* struct DataFrameIterator / MutableDataFrameIterator { names, data, other, axis }:
\* names and data hold what the two inner iterators have still to yield.
\* DataFrame::df_iter
df_iter(self, axis) ==
    IF axis = "Row"
    THEN [kind |-> "iter", names |-> self.index, data |-> axis_iter(self.data, 0),
          other |-> self.columns, axis |-> "Row"]
    ELSE [kind |-> "iter", names |-> self.columns, data |-> axis_iter(self.data, 1),
          other |-> self.index, axis |-> "Column"]

\* df_iter_mut handing out the row views whatever the axis.
df_iter_mut_row_views(self, axis) ==
    IF axis = "Row"
    THEN [kind |-> "iter_mut", names |-> self.index,
          data |-> axis_iter(self.data, 0), ax |-> 0,
          other |-> self.columns, axis |-> "Row"]
    ELSE [kind |-> "iter_mut", names |-> self.columns,
          data |-> axis_iter(self.data, 0), ax |-> 1,
          other |-> self.index, axis |-> "Row"]

\* DataFrame::df_iter_mut.  ax is the axis of the matrix the mutable views
\* lie along: what is written through a view lands in its row (0) or its
\* column (1) of the matrix.
df_iter_mut(self, axis) ==
    IF axis = "Row"
    THEN [kind |-> "iter_mut", names |-> self.index,
          data |-> axis_iter(self.data, 0), ax |-> 0,
          other |-> self.columns, axis |-> "Row"]
    ELSE [kind |-> "iter_mut", names |-> self.columns,
          data |-> axis_iter(self.data, 1), ax |-> 1,
          other |-> self.index, axis |-> "Row"]

\* next leaving the data iterator where it was.
next_data_stuck(it) ==
    IF it.names = <<>> \/ it.data = <<>>
    THEN [item |-> None, it |-> it]
    ELSE [item |-> Some(Head(it.names), Head(it.data)),
          it |-> [it EXCEPT !.names = Tail(it.names)]]

\* DataFrameIterator::next and MutableDataFrameIterator::next: the item and the
\* iterator after the call.  names is advanced before data is looked at.
next(it) ==
    IF it.names = <<>>
    THEN [item |-> None, it |-> it]
    ELSE LET val == Head(it.names)
             it1 == [it EXCEPT !.names = Tail(it.names)]
         IN  IF it1.data = <<>>
             THEN [item |-> None, it |-> it1]
             ELSE [item |-> Some(val, Head(it1.data)),
                   it |-> [it1 EXCEPT !.data = Tail(it1.data)]]

\* ------------------------------------------------------------------------
\* Select / Remove (adapters::transform)
\* ------------------------------------------------------------------------

\* names.contains(label)
Contains(names, label) == \E i \in 1..Len(names) : names[i] = label

\* Select::new and Remove::new keep the iterator, the names, the labels of the
\* other axis and the axis tag.
SelectNew(it, names, other, axis) ==
    [kind |-> "select", data |-> it, names |-> names, other |-> other, axis |-> axis]

RemoveNew(it, names, other, axis) ==
    [kind |-> "remove", data |-> it, names |-> names, other |-> other, axis |-> axis]

\* select walking the rows whatever the axis.
select_rows_only(self, names, axis) ==
    SelectNew(df_iter(self, "Row"), names, self.columns, "Row")

\* select carrying the labels of the walked axis as those of the other axis.
select_own_labels(self, names, axis) ==
    IF axis = "Row"
    THEN SelectNew(df_iter(self, "Row"), names, self.index, "Row")
    ELSE SelectNew(df_iter(self, "Column"), names, self.columns, "Column")

\* Operations::select
select(self, names, axis) ==
    IF axis = "Row"
    THEN SelectNew(df_iter(self, "Row"), names, self.columns, "Row")
    ELSE SelectNew(df_iter(self, "Column"), names, self.index, "Column")

\* remove walking the other axis.
remove_other_axis(self, names, axis) ==
    IF axis = "Row"
    THEN RemoveNew(df_iter(self, "Column"), names, self.index, "Column")
    ELSE RemoveNew(df_iter(self, "Row"), names, self.columns, "Row")

\* remove building the Select adapter.
remove_as_select(self, names, axis) ==
    IF axis = "Row"
    THEN SelectNew(df_iter(self, "Row"), names, self.columns, "Row")
    ELSE SelectNew(df_iter(self, "Column"), names, self.index, "Column")

\* Operations::remove
remove(self, names, axis) ==
    IF axis = "Row"
    THEN RemoveNew(df_iter(self, "Row"), names, self.columns, "Row")
    ELSE RemoveNew(df_iter(self, "Column"), names, self.index, "Column")

\* ------------------------------------------------------------------------
\* Append (adapters::transform)
\* ------------------------------------------------------------------------

\* Append::new keeps the iterator, the new (name, data) pair still to be
\* yielded, the labels of the other axis and the axis tag.
AppendNew(it, name, data, other, axis) ==
    [kind |-> "append", data |-> it, extra |-> Some(name, data),
     other |-> other, axis |-> axis]

\* append walking the rows whatever the axis.
append_rows_only(self, name, data, axis) ==
    AppendNew(df_iter(self, "Row"), name, data, self.columns, "Row")

\* Operations::append
append(self, name, data, axis) ==
    IF axis = "Row"
    THEN AppendNew(df_iter(self, "Row"), name, data, self.columns, "Row")
    ELSE AppendNew(df_iter(self, "Column"), name, data, self.index, "Column")

\* Append::next: the pairs of the inner iterator, then the new pair once.
AppendNext(ad) ==
    LET r == next(ad.data)
        ad1 == [ad EXCEPT !.data = r.it]
    IN  IF r.item.some
        THEN [item |-> r.item, it |-> ad1]
        ELSE [item |-> ad.extra, it |-> [ad1 EXCEPT !.extra = None]]

\* ------------------------------------------------------------------------
\* Concat (adapters::transform)
\* ------------------------------------------------------------------------

RECURSIVE Suffixed(_, _)
\* The label with "_x" appended for as long as it is among the taken ones.
Suffixed(label, taken) ==
    IF Contains(taken, label) THEN Suffixed(label \o "_x", taken) ELSE label

\* Concat::new keeps the two iterators, the labels the first one is to yield,
\* the labels of the other axis and the axis tag.
ConcatNew(it, other_it, other, axis) ==
    [kind |-> "concat", data |-> it, second |-> other_it, firsts |-> it.names,
     other |-> other, axis |-> axis]

\* Operations::concat, the default implementation (any T, S).
concat(self, other, axis) ==
    IF axis = "Row"
    THEN ConcatNew(df_iter(self, "Column"), df_iter(other, "Column"),
                   self.columns, "Column")
    ELSE ConcatNew(df_iter(self, "Row"), df_iter(other, "Row"),
                   self.columns, "Row")

\* Operations::concat, the implementation for DataFrame<f64, String>.
concat_f64(self, other, axis) ==
    IF axis = "Row"
    THEN ConcatNew(df_iter(self, "Row"), df_iter(other, "Row"),
                   self.columns, "Row")
    ELSE ConcatNew(df_iter(self, "Column"), df_iter(other, "Column"),
                   self.index, "Column")

\* Concat::next: the pairs of the first iterator, then those of the second,
\* a label of the second that the first has too being renamed.
ConcatNext(ad) ==
    LET r == next(ad.data)
        r2 == next(ad.second)
    IN  IF r.item.some
        THEN [item |-> r.item, it |-> [ad EXCEPT !.data = r.it]]
        ELSE [item |-> IF r2.item.some
                       THEN Some(Suffixed(r2.item.label, ad.firsts), r2.item.view)
                       ELSE None,
              it |-> [ad EXCEPT !.data = r.it, !.second = r2.it]]

\* ------------------------------------------------------------------------
\* Joins (adapters::join)
\* ------------------------------------------------------------------------

RECURSIVE IterPairs(_)
\* it.collect(): every pair an axis iterator yields until it ends.
IterPairs(it) ==
    LET r == next(it)
    IN  IF ~r.item.some THEN <<>> ELSE <<r.item>> \o IterPairs(r.it)

\* InnerJoin::new and OuterJoin::new keep the iterator of the driving
\* operand, the rows of the other operand collected for lookup by label, and
\* the column labels of the two.
InnerJoinNew(left, right, left_columns, right_columns) ==
    [kind |-> "inner_join", data |-> left, right |-> IterPairs(right),
     left_columns |-> left_columns, right_columns |-> right_columns]

OuterJoinNew(left, right, left_columns, right_columns) ==
    [kind |-> "outer_join", data |-> left, right |-> IterPairs(right),
     left_columns |-> left_columns, right_columns |-> right_columns]

\* inner_left_join building the outer join.
inner_left_join_as_outer(self, other) ==
    OuterJoinNew(df_iter(self, "Row"), df_iter(other, "Row"),
                 self.columns, other.columns)

\* inner_left_join driven by the other frame.
inner_left_join_swapped(self, other) ==
    InnerJoinNew(df_iter(other, "Row"), df_iter(self, "Row"),
                 other.columns, self.columns)

\* inner_left_join handing over the column labels in the other order.
inner_left_join_columns_swapped(self, other) ==
    InnerJoinNew(df_iter(self, "Row"), df_iter(other, "Row"),
                 other.columns, self.columns)

\* Operations::inner_left_join
inner_left_join(self, other) ==
    InnerJoinNew(df_iter(self, "Row"), df_iter(other, "Row"),
                 self.columns, other.columns)

\* outer_left_join building the inner join.
outer_left_join_as_inner(self, other) ==
    InnerJoinNew(df_iter(self, "Row"), df_iter(other, "Row"),
                 self.columns, other.columns)

\* outer_left_join driven by the other frame.
outer_left_join_swapped(self, other) ==
    OuterJoinNew(df_iter(other, "Row"), df_iter(self, "Row"),
                 other.columns, self.columns)

\* Operations::outer_left_join
outer_left_join(self, other) ==
    OuterJoinNew(df_iter(self, "Row"), df_iter(other, "Row"),
                 self.columns, other.columns)

\* inner_right_join with the operands in the order of the left join.
inner_right_join_as_left(self, other) ==
    InnerJoinNew(df_iter(self, "Row"), df_iter(other, "Row"),
                 self.columns, other.columns)

\* Operations::inner_right_join
inner_right_join(self, other) ==
    InnerJoinNew(df_iter(other, "Row"), df_iter(self, "Row"),
                 other.columns, self.columns)

\* Operations::outer_right_join
outer_right_join(self, other) ==
    OuterJoinNew(df_iter(other, "Row"), df_iter(self, "Row"),
                 other.columns, self.columns)

\* The first of the pairs that has the label, if any.
Find(pairs, label) ==
    LET at == {i \in 1..Len(pairs) : pairs[i].label = label}
    IN  IF at = {} THEN None
        ELSE pairs[CHOOSE i \in at : \A k \in at : i <= k]

\* (label, left view, Option<right view>)
Joined(item, match) ==
    [some |-> TRUE, label |-> item.label, view |-> item.view, right |-> match]

RECURSIVE JoinNext(_)
\* InnerJoin::next / OuterJoin::next: the next row of the driving operand
\* with the row the lookup has for its label; a row without a match is
\* skipped by the inner join and yielded with None by the outer join.
JoinNext(ad) ==
    LET r == next(ad.data)
        ad1 == [ad EXCEPT !.data = r.it]
        m == Find(ad.right, r.item.label)
    IN  IF ~r.item.some
        THEN [item |-> None, it |-> ad1]
        ELSE IF m.some \/ ad.kind = "outer_join"
             THEN [item |-> Joined(r.item, m), it |-> ad1]
             ELSE JoinNext(ad1)

RECURSIVE JoinColumns(_, _)
\* The column labels of a joined frame: those of the driving operand, then
\* those of the other operand with "_x" appended, and appended again for as
\* long as the label is already taken.
JoinColumns(left_columns, right_columns) ==
    IF right_columns = <<>>
    THEN left_columns
    ELSE JoinColumns(Append(left_columns,
                            Suffixed(Head(right_columns) \o "_x", left_columns)),
                     Tail(right_columns))

\* ------------------------------------------------------------------------
\* Aggregates (adapters::process)
\* ------------------------------------------------------------------------

RECURSIVE Present(_)
\* The values of a view that are not missing, in the order of the view.
Present(view) ==
    IF view = <<>>
    THEN <<>>
    ELSE (IF is_empty(Head(view)) THEN <<>> ELSE <<Head(view)>>)
             \o Present(Tail(view))

RECURSIVE Total(_)
\* The sum of a list of values.
Total(vals) == IF vals = <<>> THEN 0 ELSE Head(vals) + Total(Tail(vals))

RECURSIVE Squares(_)
\* The sum of the squares of a list of values.
Squares(vals) ==
    IF vals = <<>> THEN 0 ELSE Head(vals) * Head(vals) + Squares(Tail(vals))

\* The largest and the smallest value of a list that is not empty.
Largest(vals) ==
    CHOOSE x \in {vals[i] : i \in 1..Len(vals)} :
        \A i \in 1..Len(vals) : vals[i] <= x

Smallest(vals) ==
    CHOOSE x \in {vals[i] : i \in 1..Len(vals)} :
        \A i \in 1..Len(vals) : x <= vals[i]

\* Sum::new, Mean::new, Max::new, Min::new, Stdev::new keep the iterator, the
\* label list and the axis tag they are given.
SumNew(it, other, axis) ==
    [kind |-> "sum", data |-> it, other |-> other, axis |-> axis]

MeanNew(it, other, axis) ==
    [kind |-> "mean", data |-> it, other |-> other, axis |-> axis]

MaxNew(it, other, axis) ==
    [kind |-> "max", data |-> it, other |-> other, axis |-> axis]

MinNew(it, other, axis) ==
    [kind |-> "min", data |-> it, other |-> other, axis |-> axis]

StdevNew(it, other, axis) ==
    [kind |-> "stdev", data |-> it, other |-> other, axis |-> axis]

\* The scalar a view is reduced to, missing values skipped.  The sum of no
\* value is 0; the other reductions of no value are Missing.  The mean is
\* the sum divided by the count: the frames these reductions are applied to
\* hold multiples of Scale, which makes the quotient a whole number.  The
\* standard deviation of n >= 2 values is the square root of
\* (n * sum of squares - square of the sum) / (n * (n - 1)), kept as the
\* numerator and the denominator under the root.
Reduced(kind, view) ==
    LET vals == Present(view)
        n == Len(vals)
    IN  IF kind = "sum" THEN Total(vals)
        ELSE IF n = 0 THEN Missing
        ELSE IF kind = "mean" THEN Total(vals) \div n
        ELSE IF kind = "max" THEN Largest(vals)
        ELSE IF kind = "min" THEN Smallest(vals)
        ELSE IF n < 2 THEN Missing
        ELSE [root_num |-> n * Squares(vals) - Total(vals) * Total(vals),
              root_den |-> n * (n - 1)]

\* Sum::next, Mean::next, Max::next, Min::next, Stdev::next: the next pair
\* of the iterator with its view reduced to one scalar.
AggregateNext(ad) ==
    LET r == next(ad.data)
    IN  [item |-> IF r.item.some
                  THEN [some |-> TRUE, label |-> r.item.label,
                        value |-> Reduced(ad.kind, r.item.view)]
                  ELSE None,
         it |-> [ad EXCEPT !.data = r.it]]

RECURSIVE AggregateDrain(_)
\* for (label, value) in adapter: every pair an aggregate yields.
AggregateDrain(ad) ==
    LET r == AggregateNext(ad)
    IN  IF ~r.item.some THEN <<>> ELSE <<r.item>> \o AggregateDrain(r.it)

\* DataFrame::sumdf
sumdf(self, axis) ==
    IF axis = "Row"
    THEN SumNew(df_iter(self, "Column"), self.columns, "Column")
    ELSE SumNew(df_iter(self, "Row"), self.index, "Row")

\* mean walking the axis sumdf walks.
mean_as_sumdf(self, axis) ==
    IF axis = "Row"
    THEN MeanNew(df_iter(self, "Column"), self.columns, "Column")
    ELSE MeanNew(df_iter(self, "Row"), self.index, "Row")

\* DataFrame::mean
mean(self, axis) ==
    IF axis = "Row"
    THEN MeanNew(df_iter(self, "Row"), self.columns, "Row")
    ELSE MeanNew(df_iter(self, "Column"), self.index, "Row")

\* DataFrame::maxdf
maxdf(self, axis) ==
    IF axis = "Row"
    THEN MaxNew(df_iter(self, "Row"), self.columns, "Row")
    ELSE MaxNew(df_iter(self, "Column"), self.index, "Row")

\* DataFrame::min
min(self, axis) ==
    IF axis = "Row"
    THEN MinNew(df_iter(self, "Row"), self.columns, "Row")
    ELSE MinNew(df_iter(self, "Column"), self.index, "Row")

\* DataFrame::stdev
stdev(self, axis) ==
    IF axis = "Row"
    THEN StdevNew(df_iter(self, "Row"), self.columns, "Row")
    ELSE StdevNew(df_iter(self, "Column"), self.index, "Row")

\* ------------------------------------------------------------------------
\* Impute (adapters::process)
\* ------------------------------------------------------------------------

\* ImputeStrategy
Strategy(kind, value) == [kind |-> kind, value |-> value]

\* The values a Constant strategy is given.
FillValues == {0, Missing}

Strategies ==
    {Strategy(k, Missing) : k \in {"Mean", "Median", "Mode"}}
        \cup {Strategy("Constant", v) : v \in FillValues}

RECURSIVE Inserted(_, _)
\* A sorted list with one more value put in its place.
Inserted(x, sorted) ==
    IF sorted = <<>> \/ x <= Head(sorted)
    THEN <<x>> \o sorted
    ELSE <<Head(sorted)>> \o Inserted(x, Tail(sorted))

RECURSIVE Sorted(_)
Sorted(vals) ==
    IF vals = <<>> THEN <<>> ELSE Inserted(Head(vals), Sorted(Tail(vals)))

\* The middle value of a list that is not empty, the mean of the two middle
\* values when their number is even.
Median(vals) ==
    LET n == Len(vals)
        sorted == Sorted(vals)
    IN  IF n % 2 = 1
        THEN sorted[(n + 1) \div 2]
        ELSE (sorted[n \div 2] + sorted[n \div 2 + 1]) \div 2

\* How many times a value is in a list.
Count(vals, x) == Cardinality({i \in 1..Len(vals) : vals[i] = x})

\* The most frequent value of a list that is not empty, the one met first
\* among equally frequent ones.
Mode(vals) ==
    LET i == CHOOSE k \in 1..Len(vals) :
                 /\ \A l \in 1..Len(vals) :
                        Count(vals, vals[l]) <= Count(vals, vals[k])
                 /\ \A l \in 1..(k - 1) :
                        Count(vals, vals[l]) < Count(vals, vals[k])
    IN  vals[i]

\* Phase 1: the replacement scalar of a slice that has a value.
Replacement(strategy, view) ==
    LET vals == Present(view)
    IN  IF strategy.kind = "Mean" THEN Total(vals) \div Len(vals)
        ELSE IF strategy.kind = "Median" THEN Median(vals)
        ELSE IF strategy.kind = "Mode" THEN Mode(vals)
        ELSE strategy.value

\* Phase 2: the slice with the scalar in every missing cell; a slice with
\* no value at all is left as it is.
Imputed(strategy, view) ==
    IF Present(view) = <<>>
    THEN view
    ELSE [k \in 1..Len(view) |->
             IF is_empty(view[k]) THEN Replacement(strategy, view)
                                  ELSE view[k]]

\* Impute::new keeps the mutable iterator, the strategy, the label list and
\* the axis tag it is given.
ImputeNew(it, strategy, other, axis) ==
    [kind |-> "impute", data |-> it, strategy |-> strategy,
     other |-> other, axis |-> axis]

\* Impute::next: the next pair of the mutable iterator, its view imputed in
\* place.
ImputeNext(ad) ==
    LET r == next(ad.data)
    IN  [item |-> IF r.item.some
                  THEN Some(r.item.label, Imputed(ad.strategy, r.item.view))
                  ELSE None,
         it |-> [ad EXCEPT !.data = r.it]]

RECURSIVE ImputeDrain(_)
\* for (label, view) in adapter: every pair the impute adapter yields.
ImputeDrain(ad) ==
    LET r == ImputeNext(ad)
    IN  IF ~r.item.some THEN <<>> ELSE <<r.item>> \o ImputeDrain(r.it)

\* The matrix after the views were written through: view k is row k (ax 0)
\* or column k (ax 1) of the matrix, and a cell no view covers keeps its
\* value.
Written(m, views, ax) ==
    LET covered(k, l) == k <= Len(views) /\ l <= Len(views[k])
    IN  [m EXCEPT !.at =
            [i \in 1..m.nr |-> [j \in 1..m.nc |->
                IF ax = 0
                THEN IF covered(i, j) THEN views[i][j] ELSE m.at[i][j]
                ELSE IF covered(j, i) THEN views[j][i] ELSE m.at[i][j]]]]

\* impute walking the other axis.
impute_other_axis(self, strategy, axis) ==
    IF axis = "Row"
    THEN ImputeNew(df_iter_mut(self, "Column"), strategy, self.index, "Column")
    ELSE ImputeNew(df_iter_mut(self, "Row"), strategy, self.columns, "Row")

\* DataFrame::impute
impute(self, strategy, axis) ==
    IF axis = "Row"
    THEN ImputeNew(df_iter_mut(self, "Row"), strategy, self.columns, "Row")
    ELSE ImputeNew(df_iter_mut(self, "Column"), strategy, self.index, "Column")

\* ------------------------------------------------------------------------
\* Pulling and collecting an adapter
\* ------------------------------------------------------------------------

RECURSIVE AdapterNext(_)
\* Select::next / Remove::next: pull the inner iterator until a pair passes
\* the filter (select: its label is among the names; remove: it is not).
\* The other adapters have their own next.
AdapterNext(ad) ==
    IF ad.kind = "append"
    THEN AppendNext(ad)
    ELSE IF ad.kind = "concat"
    THEN ConcatNext(ad)
    ELSE IF ad.kind \in {"inner_join", "outer_join"}
    THEN JoinNext(ad)
    ELSE LET r == next(ad.data)
             ad1 == [ad EXCEPT !.data = r.it]
         IN  IF ~r.item.some
             THEN [item |-> None, it |-> ad1]
             ELSE IF Contains(ad.names, r.item.label) = (ad.kind = "select")
                  THEN [item |-> r.item, it |-> ad1]
                  ELSE AdapterNext(ad1)

RECURSIVE Drain(_)
\* for pair in adapter: every pair the adapter yields until it ends.
Drain(ad) ==
    LET r == AdapterNext(ad)
    IN  IF ~r.item.some THEN <<>> ELSE <<r.item>> \o Drain(r.it)

\* The matrix whose rows (axis Row) or columns (axis Column) are the views.
FromViews(views, nother, axis) ==
    IF axis = "Row"
    THEN [nr |-> Len(views), nc |-> nother,
          at |-> [i \in 1..Len(views) |-> [j \in 1..nother |-> views[i][j]]]]
    ELSE [nr |-> nother, nc |-> Len(views),
          at |-> [i \in 1..nother |-> [j \in 1..Len(views) |-> views[j][i]]]]

\* ToDataFrame::as_df of an adapter (collect): the yielded views become the
\* data, the yielded labels the labels of the walked axis and the carried
\* list the labels of the other axis, through new / columns / index.  A view
\* whose length is not that of the carried list fails the shape check.
as_df(ad) ==
    LET pairs == Drain(ad)
        n == [i \in 1..Len(pairs) |-> pairs[i].label]
        views == [i \in 1..Len(pairs) |-> pairs[i].view]
        bad == {i \in 1..Len(views) : Len(views[i]) # Len(ad.other)}
        d == FromViews(views, Len(ad.other), ad.axis)
        cols == IF ad.axis = "Row" THEN ad.other ELSE n
        idx == IF ad.axis = "Row" THEN n ELSE ad.other
        r1 == columns(new(d), cols)
    IN  IF bad # {}
        THEN LET i == CHOOSE k \in bad : \A l \in bad : k <= l
             IN  Err(IF ad.axis = "Row" THEN "ColumnShapeMismatch"
                                        ELSE "IndexShapeMismatch",
                     to_string(Len(ad.other)), to_string(Len(views[i])), NoFrame)
        ELSE IF ~r1.ok THEN r1 ELSE index(r1.df, idx)

\* ToDataFrame::as_df of a join: each yielded row is the row of the driving
\* operand followed by the matched row of the other operand, or by missing
\* values where there is no match; the labels of the rows are the yielded
\* ones, those of the columns the joined column labels.
join_as_df(ad) ==
    LET pairs == Drain(ad)
        n == [i \in 1..Len(pairs) |-> pairs[i].label]
        fill == [j \in 1..Len(ad.right_columns) |-> Missing]
        views == [i \in 1..Len(pairs) |->
                    pairs[i].view \o (IF pairs[i].right.some
                                      THEN pairs[i].right.view ELSE fill)]
        cols == JoinColumns(ad.left_columns, ad.right_columns)
        r1 == columns(new(FromViews(views, Len(cols), "Row")), cols)
    IN  IF ~r1.ok THEN r1 ELSE index(r1.df, n)

\* as_df of any adapter.
Collected(ad) ==
    IF ad.kind \in {"inner_join", "outer_join"} THEN join_as_df(ad) ELSE as_df(ad)

\* ------------------------------------------------------------------------
\* The state machine: a caller holding one frame and at most one iterator
\* or adapter borrowed from it
\* ------------------------------------------------------------------------

VARIABLES
    df,      \* the frame the caller holds
    df_1,    \* the second frame the caller holds, if any
    pipe,    \* the iterator or adapter borrowed from df, if any
    out,     \* the pairs pulled from it so far
    pulls,   \* the number of next() calls made on it
    ended,   \* the last next() call returned None
    prev,    \* what the opposite filter yielded for the same names and axis
    last     \* the last call made on a frame, with its arguments and result

vars == <<df, df_1, pipe, out, pulls, ended, prev, last>>

NoPipe == [kind |-> "none"]

NoRun == [kind |-> "none"]

\* The label lists a caller passes to columns, index and a MutableDataFrame.
LabelLists == SeqsUpTo(LabelSet, MaxDim)

\* The name lists a caller passes to select and remove.
NameLists == SeqsUpTo(LabelSet, MaxNames)

\* No iterator is borrowed and nothing has been pulled.
Released ==
    /\ pipe' = NoPipe
    /\ out' = <<>>
    /\ pulls' = 0
    /\ ended' = FALSE
    /\ prev' = NoRun
    /\ UNCHANGED df_1

Init ==
    \E m \in Matrices :
        /\ df = new(m)
        /\ df_1 = NoFrame
        /\ last = [op |-> "new", data |-> m]
        /\ pipe = NoPipe
        /\ out = <<>>
        /\ pulls = 0
        /\ ended = FALSE
        /\ prev = NoRun

\* The caller holds a frame.
Held == "data" \in DOMAIN df

\* Nothing is borrowed from the frame and the last call is forgotten.  No
\* operation reads last (Opposite reads it for the history variable prev
\* only), so starting every call from a quiet state loses no behaviour.
Quiet == pipe = NoPipe /\ ~ended /\ last.op = "none"

\* The caller holds a frame and nothing borrowed from it: the frame can be
\* moved into a call.
Idle == Held /\ Quiet

\* The adapter of the other kind has just been drained for the same names
\* and axis, and the pairs it yielded are still in out.
AfterOpposite(kind, names, axis) ==
    /\ pipe = NoPipe
    /\ last.op = "drain"
    /\ last.kind # kind
    /\ last.names = names
    /\ last.axis = axis

\* The iterator, the pairs pulled from it and the result of the last call go
\* out of scope.
Drop ==
    /\ last.op # "none"
    /\ last' = [op |-> "none"]
    /\ Released
    /\ UNCHANGED df

\* let df = DataFrame::new(m)
New(m) ==
    /\ Quiet
    /\ df' = new(m)
    /\ last' = [op |-> "new", data |-> m]
    /\ Released

\* let df = DataFrame::from_array(a, axis)
FromArray(a, axis) ==
    /\ Quiet
    /\ df' = from_array(a, axis)
    /\ last' = [op |-> "from_array", data |-> a, axis |-> axis]
    /\ Released

\* df.columns(cols): df is moved into the call; the caller goes on with the
\* frame of an Ok result and has no frame after an Err.
Columns(cols) ==
    LET r == columns(df, cols)
    IN  /\ Idle
        /\ df' = IF r.ok THEN r.df ELSE NoFrame
        /\ last' = [op |-> "columns", self |-> df, arg |-> cols, res |-> r]
        /\ Released

\* df.index(idx)
Index(idx) ==
    LET r == index(df, idx)
    IN  /\ Idle
        /\ df' = IF r.ok THEN r.df ELSE NoFrame
        /\ last' = [op |-> "index", self |-> df, arg |-> idx, res |-> r]
        /\ Released

\* MutableDataFrame { columns, data: df.data.view_mut(), index }.to_df(): the
\* fields are public, so the labels are the frame's own or any list.
ToDf ==
    /\ Idle
    /\ \E cols \in LabelLists \cup {df.columns}, idx \in LabelLists \cup {df.index} :
          LET self == MutableDataFrame(cols, df.data, idx)
              r == to_df(self)
          IN  /\ cols = df.columns \/ idx = df.index
              /\ df' = IF r.ok THEN r.df ELSE df
              /\ last' = [op |-> "to_df", self |-> self, res |-> r]
    /\ Released

\* let it = df.df_iter(axis)
DfIter(axis) ==
    /\ Idle
    /\ pipe' = df_iter(df, axis)
    /\ last' = [op |-> "df_iter", axis |-> axis]
    /\ out' = <<>>
    /\ pulls' = 0
    /\ ended' = FALSE
    /\ prev' = NoRun
    /\ UNCHANGED <<df, df_1>>

\* let it = df.df_iter_mut(axis)
DfIterMut(axis) ==
    /\ Idle
    /\ pipe' = df_iter_mut(df, axis)
    /\ last' = [op |-> "df_iter_mut", axis |-> axis]
    /\ out' = <<>>
    /\ pulls' = 0
    /\ ended' = FALSE
    /\ prev' = NoRun
    /\ UNCHANGED <<df, df_1>>

\* it.next() on an axis iterator; an ended iterator is pulled MaxExtraPulls
\* more times.
Pull ==
    /\ pipe.kind \in {"iter", "iter_mut"}
    /\ pulls < Len(out) + MaxExtraPulls
    /\ LET r == next(pipe)
       IN  /\ pipe' = r.it
           /\ out' = IF r.item.some THEN Append(out, r.item) ELSE out
           /\ ended' = ~r.item.some
    /\ pulls' = pulls + 1
    /\ UNCHANGED <<df, df_1, prev, last>>

\* What the adapter of the other kind yielded, when it has just been drained
\* for the same frame, names and axis.
Opposite(kind, names, axis) ==
    IF AfterOpposite(kind, names, axis)
    THEN [kind |-> last.kind, out |-> out]
    ELSE NoRun

\* let ad = df.select(names, axis)
Select(names, axis) ==
    /\ Idle \/ (Held /\ AfterOpposite("select", names, axis))
    /\ pipe' = select(df, names, axis)
    /\ prev' = Opposite("select", names, axis)
    /\ last' = [op |-> "select", names |-> names, axis |-> axis]
    /\ out' = <<>>
    /\ pulls' = 0
    /\ ended' = FALSE
    /\ UNCHANGED <<df, df_1>>

\* let ad = df.remove(names, axis)
Remove(names, axis) ==
    /\ Idle \/ (Held /\ AfterOpposite("remove", names, axis))
    /\ pipe' = remove(df, names, axis)
    /\ prev' = Opposite("remove", names, axis)
    /\ last' = [op |-> "remove", names |-> names, axis |-> axis]
    /\ out' = <<>>
    /\ pulls' = 0
    /\ ended' = FALSE
    /\ UNCHANGED <<df, df_1>>

\* for pair in ad { .. }: the adapter is consumed, every pair it yields is
\* kept in out.
DrainAdapter ==
    /\ pipe.kind \in {"select", "remove"}
    /\ out' = Drain(pipe)
    /\ pulls' = Len(out') + 1
    /\ ended' = TRUE
    /\ pipe' = NoPipe
    /\ last' = [op |-> "drain", kind |-> last.op, names |-> last.names,
                axis |-> last.axis]
    /\ UNCHANGED <<df, df_1, prev>>

\* let df = ad.as_df()?: the adapter is consumed; on success the caller goes
\* on with the collected frame.
Collect ==
    /\ pipe.kind \in {"select", "remove"}
    /\ LET r == as_df(pipe)
       IN  /\ df' = IF r.ok THEN r.df ELSE df
           /\ last' = [op |-> "collect", kind |-> last.op, names |-> last.names,
                       axis |-> last.axis, src |-> df, res |-> r]
    /\ Released

Next ==
    \/ \E m \in Matrices : New(m)
    \/ \E a \in Arrays, axis \in Axes : FromArray(a, axis)
    \/ \E cols \in LabelLists : Columns(cols)
    \/ \E idx \in LabelLists : Index(idx)
    \/ ToDf
    \/ \E axis \in Axes : DfIter(axis)
    \/ \E axis \in Axes : DfIterMut(axis)
    \/ Pull
    \/ \E names \in NameLists, axis \in Axes : Select(names, axis)
    \/ \E names \in NameLists, axis \in Axes : Remove(names, axis)
    \/ DrainAdapter
    \/ Collect
    \/ Drop

Spec == Init /\ [][Next]_vars

\* ------------------------------------------------------------------------
\* The state machine of a caller who built a frame beforehand and appends a
\* row or a column to it
\* ------------------------------------------------------------------------

\* DataFrame::new(m).columns(cols)?.index(idx)?
Build(m, cols, idx) ==
    LET r == columns(new(m), cols)
    IN  IF ~r.ok THEN r ELSE index(r.df, idx)

\* The frames built from the matrices of a set with the default labels or
\* with label lists.
FramesOf(ms) ==
    LET rs == UNION {{Build(m, cols, idx) :
                         cols \in LabelLists \cup {new(m).columns},
                         idx \in LabelLists \cup {new(m).index}} : m \in ms}
    IN  {r.df : r \in {x \in rs : x.ok}}

Frames == FramesOf(Matrices)

InitAppend ==
    /\ df \in Frames
    /\ df_1 = NoFrame
    /\ last = [op |-> "none"]
    /\ pipe = NoPipe
    /\ out = <<>>
    /\ pulls = 0
    /\ ended = FALSE
    /\ prev = NoRun

\* let ad = df.append(name, data, axis)
AppendCall(name, data, axis) ==
    /\ Idle
    /\ pipe' = append(df, name, data, axis)
    /\ last' = [op |-> "append", name |-> name, data |-> data, axis |-> axis]
    /\ out' = <<>>
    /\ pulls' = 0
    /\ ended' = FALSE
    /\ prev' = NoRun
    /\ UNCHANGED <<df, df_1>>

\* let res = ad.as_df(): the adapter is consumed, out keeps the pairs it
\* yielded to the collection and last the call that built it and the
\* result; the frames it borrowed stay with the caller.
CollectNew ==
    /\ pipe.kind \in {"append", "concat", "inner_join", "outer_join"}
    /\ out' = Drain(pipe)
    /\ last' = [op |-> "collect", call |-> last, res |-> Collected(pipe)]
    /\ pulls' = Len(out') + 1
    /\ ended' = TRUE
    /\ pipe' = NoPipe
    /\ prev' = NoRun
    /\ UNCHANGED <<df, df_1>>

NextAppend ==
    \/ \E name \in LabelSet, data \in Arrays, axis \in Axes :
          AppendCall(name, data, axis)
    \/ CollectNew
    \/ Drop

SpecAppend == InitAppend /\ [][NextAppend]_vars

\* ------------------------------------------------------------------------
\* The state machine of a caller who built two frames beforehand and
\* concatenates or joins them
\* ------------------------------------------------------------------------

\* The matrices of the first frame, and those of the second: no cell of one
\* is a cell of the other.
FirstMatrices == {MkMatrix(r, c, 0) : r \in 0..MaxDim, c \in 0..MaxDim}

SecondMatrices ==
    {[m EXCEPT !.at = [i \in 1..m.nr |-> [j \in 1..m.nc |-> 100 + m.at[i][j]]]] :
        m \in FirstMatrices}

\* The cell type of the two frames: f64 (with String labels) has its own
\* implementation of Operations, every other type the default one.
CellTypes == {"f64", "InnerType"}

InitPair ==
    /\ df \in FramesOf(FirstMatrices)
    /\ df_1 \in FramesOf(SecondMatrices)
    /\ last = [op |-> "none"]
    /\ pipe = NoPipe
    /\ out = <<>>
    /\ pulls = 0
    /\ ended = FALSE
    /\ prev = NoRun

\* let ad = df.concat(&df_1, axis), for frames of cell type ty
ConcatCall(ty, axis) ==
    /\ Idle
    /\ pipe' = IF ty = "f64" THEN concat_f64(df, df_1, axis)
                             ELSE concat(df, df_1, axis)
    /\ last' = [op |-> "concat", ty |-> ty, axis |-> axis]
    /\ out' = <<>>
    /\ pulls' = 0
    /\ ended' = FALSE
    /\ prev' = NoRun
    /\ UNCHANGED <<df, df_1>>

\* let ad = df.inner_left_join(&df_1)
InnerLeftJoin ==
    /\ Idle
    /\ pipe' = inner_left_join(df, df_1)
    /\ last' = [op |-> "inner_left_join"]
    /\ out' = <<>>
    /\ pulls' = 0
    /\ ended' = FALSE
    /\ prev' = NoRun
    /\ UNCHANGED <<df, df_1>>

\* let ad = df.outer_left_join(&df_1)
OuterLeftJoin ==
    /\ Idle
    /\ pipe' = outer_left_join(df, df_1)
    /\ last' = [op |-> "outer_left_join"]
    /\ out' = <<>>
    /\ pulls' = 0
    /\ ended' = FALSE
    /\ prev' = NoRun
    /\ UNCHANGED <<df, df_1>>

\* let ad = df.inner_right_join(&df_1)
InnerRightJoin ==
    /\ Idle
    /\ pipe' = inner_right_join(df, df_1)
    /\ last' = [op |-> "inner_right_join"]
    /\ out' = <<>>
    /\ pulls' = 0
    /\ ended' = FALSE
    /\ prev' = NoRun
    /\ UNCHANGED <<df, df_1>>

\* let ad = df.outer_right_join(&df_1)
OuterRightJoin ==
    /\ Idle
    /\ pipe' = outer_right_join(df, df_1)
    /\ last' = [op |-> "outer_right_join"]
    /\ out' = <<>>
    /\ pulls' = 0
    /\ ended' = FALSE
    /\ prev' = NoRun
    /\ UNCHANGED <<df, df_1>>

NextPair ==
    \/ \E ty \in CellTypes, axis \in Axes : ConcatCall(ty, axis)
    \/ InnerLeftJoin
    \/ OuterLeftJoin
    \/ InnerRightJoin
    \/ OuterRightJoin
    \/ CollectNew
    \/ Drop

SpecPair == InitPair /\ [][NextPair]_vars

\* ------------------------------------------------------------------------
\* The state machine of a caller who built a frame beforehand, reduces it
\* with the aggregates and imputes it in place
\* ------------------------------------------------------------------------

RECURSIVE Factorial(_)
Factorial(n) == IF n = 0 THEN 1 ELSE n * Factorial(n - 1)

\* Every number of the matrices below is a multiple of Scale, so that the
\* mean of up to MaxDim of them, and the mean of such means, is a whole
\* number.
Scale == Factorial(MaxDim) * Factorial(MaxDim)

ScaledMatrices ==
    {[m EXCEPT !.at = [i \in 1..m.nr |-> [j \in 1..m.nc |->
          IF is_empty(m.at[i][j]) THEN m.at[i][j] ELSE Scale * m.at[i][j]]]] :
        m \in Matrices}

InitStats ==
    /\ df \in FramesOf(ScaledMatrices)
    /\ df_1 = NoFrame
    /\ last = [op |-> "none"]
    /\ pipe = NoPipe
    /\ out = <<>>
    /\ pulls = 0
    /\ ended = FALSE
    /\ prev = NoRun

\* let ad = df.sumdf(axis)
SumdfCall(axis) ==
    /\ Idle
    /\ pipe' = sumdf(df, axis)
    /\ last' = [op |-> "sumdf", axis |-> axis]
    /\ out' = <<>>
    /\ pulls' = 0
    /\ ended' = FALSE
    /\ prev' = NoRun
    /\ UNCHANGED <<df, df_1>>

\* let ad = df.mean(axis)
MeanCall(axis) ==
    /\ Idle
    /\ pipe' = mean(df, axis)
    /\ last' = [op |-> "mean", axis |-> axis]
    /\ out' = <<>>
    /\ pulls' = 0
    /\ ended' = FALSE
    /\ prev' = NoRun
    /\ UNCHANGED <<df, df_1>>

\* let ad = df.maxdf(axis)
MaxdfCall(axis) ==
    /\ Idle
    /\ pipe' = maxdf(df, axis)
    /\ last' = [op |-> "maxdf", axis |-> axis]
    /\ out' = <<>>
    /\ pulls' = 0
    /\ ended' = FALSE
    /\ prev' = NoRun
    /\ UNCHANGED <<df, df_1>>

\* let ad = df.min(axis)
MinCall(axis) ==
    /\ Idle
    /\ pipe' = min(df, axis)
    /\ last' = [op |-> "min", axis |-> axis]
    /\ out' = <<>>
    /\ pulls' = 0
    /\ ended' = FALSE
    /\ prev' = NoRun
    /\ UNCHANGED <<df, df_1>>

\* let ad = df.stdev(axis)
StdevCall(axis) ==
    /\ Idle
    /\ pipe' = stdev(df, axis)
    /\ last' = [op |-> "stdev", axis |-> axis]
    /\ out' = <<>>
    /\ pulls' = 0
    /\ ended' = FALSE
    /\ prev' = NoRun
    /\ UNCHANGED <<df, df_1>>

\* for (label, value) in ad: the aggregate is run to its end, out keeps the
\* pairs it yielded and last the call that built it.
Reduce ==
    /\ pipe.kind \in {"sum", "mean", "max", "min", "stdev"}
    /\ out' = AggregateDrain(pipe)
    /\ last' = [op |-> "reduced", call |-> last]
    /\ pulls' = Len(out') + 1
    /\ ended' = TRUE
    /\ pipe' = NoPipe
    /\ prev' = NoRun
    /\ UNCHANGED <<df, df_1>>

\* An impute has just been run to its end with this strategy and axis, and
\* it was not itself a second run.
AfterImpute(strategy, axis) ==
    /\ pipe = NoPipe
    /\ last.op = "imputed"
    /\ prev = NoRun
    /\ last.call.strategy = strategy
    /\ last.call.axis = axis

\* let ad = df.impute(strategy, axis), on a frame nothing is borrowed from
\* or right after an impute with the same arguments was run to its end; prev
\* then keeps the frame as that first run found it and as it left it.
ImputeCall(strategy, axis) ==
    /\ Idle \/ AfterImpute(strategy, axis)
    /\ pipe' = impute(df, strategy, axis)
    /\ last' = [op |-> "impute", strategy |-> strategy, axis |-> axis]
    /\ prev' = IF Idle
               THEN NoRun
               ELSE [kind |-> "impute", before |-> last.before, after |-> df]
    /\ out' = <<>>
    /\ pulls' = 0
    /\ ended' = FALSE
    /\ UNCHANGED <<df, df_1>>

\* for (label, view) in ad: the impute adapter is run to its end.  Every
\* view it yields is a mutable view of the frame's matrix, so what it wrote
\* is in the frame; last keeps the call and the frame as the run found it.
ImputeRun ==
    /\ pipe.kind = "impute"
    /\ out' = ImputeDrain(pipe)
    /\ df' = [df EXCEPT !.data =
                 Written(df.data,
                         [k \in 1..Len(out') |-> out'[k].view],
                         pipe.data.ax)]
    /\ last' = [op |-> "imputed", call |-> last, before |-> df]
    /\ pulls' = Len(out') + 1
    /\ ended' = TRUE
    /\ pipe' = NoPipe
    /\ UNCHANGED <<df_1, prev>>

NextStats ==
    \/ \E axis \in Axes : SumdfCall(axis)
    \/ \E axis \in Axes : MeanCall(axis)
    \/ \E axis \in Axes : MaxdfCall(axis)
    \/ \E axis \in Axes : MinCall(axis)
    \/ \E axis \in Axes : StdevCall(axis)
    \/ Reduce
    \/ \E strategy \in Strategies, axis \in Axes : ImputeCall(strategy, axis)
    \/ ImputeRun
    \/ Drop

SpecStats == InitStats /\ [][NextStats]_vars

\* ------------------------------------------------------------------------
\* Properties
\* ------------------------------------------------------------------------

\* The matrix is well formed and the labels match its shape.
ShapeInv(f) ==
    /\ Len(f.data.at) = f.data.nr
    /\ \A i \in 1..f.data.nr : Len(f.data.at[i]) = f.data.nc
    /\ Len(f.index) = f.data.nr
    /\ Len(f.columns) = f.data.nc

\* The decimal numerals, written out.
Numerals == <<"0", "1", "2", "3", "4", "5", "6", "7", "8", "9">>

\* The labels of an axis of a frame, and the (label, view) pairs of the axis.
AxisLabels(f, axis) == IF axis = "Row" THEN f.index ELSE f.columns

OtherLabels(f, axis) == IF axis = "Row" THEN f.columns ELSE f.index

AxisPairs(f, axis) ==
    IF axis = "Row"
    THEN [i \in 1..Len(f.index) |-> Some(f.index[i], RowOf(f.data, i))]
    ELSE [j \in 1..Len(f.columns) |-> Some(f.columns[j], ColumnOf(f.data, j))]

Named(names) == {names[i] : i \in 1..Len(names)}

Min(a, b) == IF a < b THEN a ELSE b

\* C1: in every frame the caller comes to hold, through new, from_array,
\* columns, index, to_df or a collected select / remove adapter, the number of
\* index labels is the number of matrix rows and the number of column labels
\* is the number of matrix columns.
C1_ShapeInvariant == Held => ShapeInv(df)

\* The caller holds a frame collected from an adapter that dropped a column
\* of a frame with rows.
C1_Witness ==
    /\ last.op = "collect"
    /\ last.res.ok
    /\ Held
    /\ df.data.nr > 0
    /\ df.data.nc > 0
    /\ df.data.nc < last.src.data.nc

\* C2: columns(seq) fails with ColumnShapeMismatch exactly when the length of
\* seq differs from the number of matrix columns; the receiver is as it was
\* when the failure is returned; on success the column labels are seq and the
\* data and the index labels are the receiver's.
C2_Columns ==
    last.op = "columns" =>
        /\ ~last.res.ok <=> Len(last.arg) # last.self.data.nc
        /\ ~last.res.ok => /\ last.res.err = "ColumnShapeMismatch"
                           /\ last.res.df = last.self
                           /\ ~Held
        /\ last.res.ok => /\ df = last.res.df
                          /\ df.columns = last.arg
                          /\ df.data = last.self.data
                          /\ df.index = last.self.index

\* columns has refused a list longer than the columns of the matrix.
C2_Witness ==
    /\ last.op = "columns"
    /\ ~last.res.ok
    /\ last.self.data.nc >= 1
    /\ Len(last.arg) > last.self.data.nc

\* C3: index(seq) fails with IndexShapeMismatch exactly when the length of seq
\* differs from the number of matrix rows; on success the index labels are
\* seq and the data and the column labels are the receiver's.
C3_Index ==
    last.op = "index" =>
        /\ ~last.res.ok <=> Len(last.arg) # last.self.data.nr
        /\ ~last.res.ok => last.res.err = "IndexShapeMismatch"
        /\ last.res.ok => /\ df = last.res.df
                          /\ df.index = last.arg
                          /\ df.data = last.self.data
                          /\ df.columns = last.self.columns

\* index has relabelled the rows of a frame that has more rows than columns.
C3_Witness ==
    /\ last.op = "index"
    /\ last.res.ok
    /\ last.self.data.nr >= 2
    /\ last.self.data.nc < last.self.data.nr
    /\ df.index # last.self.index

\* C4: new(matrix) on an r-by-c matrix yields the index labels "0" .. "r-1"
\* and the column labels "0" .. "c-1", in that order.
C4_DefaultLabels ==
    last.op = "new" =>
        /\ df.index = SubSeq(Numerals, 1, last.data.nr)
        /\ df.columns = SubSeq(Numerals, 1, last.data.nc)

\* new was given a matrix with two rows or more and fewer columns than rows.
C4_Witness ==
    /\ last.op = "new"
    /\ last.data.nr >= 2
    /\ last.data.nc >= 1
    /\ last.data.nc < last.data.nr

\* C5: by default the columns and the index of a new frame are "1" .. "N",
\* N the number of columns (of rows) of the data.
C5_LabelsFromOne ==
    last.op = "new" =>
        /\ df.index = SubSeq(Numerals, 2, last.data.nr + 1)
        /\ df.columns = SubSeq(Numerals, 2, last.data.nc + 1)

\* C6: df_iter(axis) and df_iter_mut(axis) on a frame with n labels on the
\* axis yield, pull after pull, the pairs (i-th label, view of the i-th row
\* or column) in index order, n pairs in all, and None on every later pull.
C6_AxisIterator ==
    last.op \in {"df_iter", "df_iter_mut"} =>
        LET expected == AxisPairs(df, last.axis)
            n == Len(AxisLabels(df, last.axis))
        IN  /\ Len(expected) = n
            /\ out = SubSeq(expected, 1, Min(pulls, n))
            /\ ended <=> pulls > n

\* A mutable column iterator over two columns or more, pulled twice after
\* its end.
C6_Witness ==
    /\ last.op = "df_iter_mut"
    /\ last.axis = "Column"
    /\ Len(df.columns) >= 2
    /\ df.data.nr >= 1
    /\ ended
    /\ pulls >= Len(df.columns) + 2
    /\ Len(out) = Len(df.columns)

\* C7: select(K, axis) yields exactly the pairs of the axis whose label is in
\* K, in the order of the axis whatever the order of K; a name of K that is
\* no label of the axis yields nothing.
C7_Select ==
    (last.op = "drain" /\ last.kind = "select") =>
        out = SelectSeq(AxisPairs(df, last.axis),
                        LAMBDA p : p.label \in Named(last.names))

\* select was given the two labels of the axis in the opposite order and
\* yielded both pairs in the order of the axis.
C7_Witness ==
    /\ last.op = "drain"
    /\ last.kind = "select"
    /\ last.names = <<"b", "a">>
    /\ AxisLabels(df, last.axis) = <<"a", "b">>
    /\ Len(out) = 2
    /\ out[1].label = "a"
    /\ out[1].view # out[2].view

\* How many times a pair occurs in a sequence of pairs.
Occurrences(pairs, p) == Cardinality({i \in 1..Len(pairs) : pairs[i] = p})

\* C8: for names K that all are labels of the axis, select(K, axis) and
\* remove(K, axis) split the pairs of the axis: each pair of the axis is
\* yielded by exactly one of the two, and nothing else is yielded.
C8_Complementary ==
    (/\ last.op = "drain"
     /\ prev.kind # "none"
     /\ Named(last.names) \subseteq Named(AxisLabels(df, last.axis))) =>
        LET source == AxisPairs(df, last.axis)
            all == Named(source) \cup Named(out) \cup Named(prev.out)
        IN  /\ {prev.kind, last.kind} = {"select", "remove"}
            /\ Len(out) + Len(prev.out) = Len(source)
            /\ \A p \in all :
                  Occurrences(out, p) + Occurrences(prev.out, p)
                      = Occurrences(source, p)

\* remove has been drained after select, for a name that is one of the two
\* different labels of the axis: each yielded one pair.
C8_Witness ==
    /\ last.op = "drain"
    /\ last.kind = "remove"
    /\ prev.kind = "select"
    /\ Len(last.names) >= 1
    /\ Named(last.names) \subseteq Named(AxisLabels(df, last.axis))
    /\ Len(out) = 1
    /\ Len(prev.out) = 1
    /\ out[1].label # prev.out[1].label

\* The positions of the axis of f whose label is, or is not, among the names.
Kept(f, axis, names, wanted) ==
    SelectSeq([i \in 1..Len(AxisLabels(f, axis)) |-> i],
              LAMBDA i : (AxisLabels(f, axis)[i] \in Named(names)) = wanted)

\* The frame made of the given positions of the axis of f, labels and cells.
Restricted(f, axis, keep) ==
    IF axis = "Row"
    THEN DataFrame(f.columns,
                   [nr |-> Len(keep), nc |-> f.data.nc,
                    at |-> [p \in 1..Len(keep) |-> f.data.at[keep[p]]]],
                   [p \in 1..Len(keep) |-> f.index[keep[p]]])
    ELSE DataFrame([p \in 1..Len(keep) |-> f.columns[keep[p]]],
                   [nr |-> f.data.nr, nc |-> Len(keep),
                    at |-> [i \in 1..f.data.nr |->
                              [p \in 1..Len(keep) |-> f.data.at[i][keep[p]]]]],
                   f.index)

\* C9: collecting remove(K, axis) gives a frame whose labels on the axis are
\* the surviving labels in their order, whose labels on the other axis are
\* the source's and whose cells are those of the surviving rows or columns.
C9_CollectRemove ==
    (last.op = "collect" /\ last.kind = "remove") =>
        /\ last.res.ok
        /\ df = Restricted(last.src, last.axis,
                           Kept(last.src, last.axis, last.names, FALSE))

\* Column "a" was removed from a frame with the columns "a", "b" and two
\* rows: the collected frame has the one column "b".
C9_Witness ==
    /\ last.op = "collect"
    /\ last.kind = "remove"
    /\ last.axis = "Column"
    /\ last.names = <<"a">>
    /\ last.src.columns = <<"a", "b">>
    /\ last.src.data.nr = 2
    /\ df.columns = <<"b">>
    /\ df.index = last.src.index
    /\ df.data.at = <<<<12>>, <<22>>>>

\* C10 as stated: the frame collected from a select or remove adapter that
\* yields k pairs has the labels "0" .. "k-1" on the walked axis and the
\* carried list on the other axis.
C10_SynthesizedLabels ==
    last.op = "collect" =>
        /\ last.res.ok
        /\ AxisLabels(df, last.axis) = RangeLabels(Len(AxisLabels(df, last.axis)))
        /\ OtherLabels(df, last.axis) = OtherLabels(last.src, last.axis)

\* C10 as amended: the frame collected from a select or remove adapter that
\* yields k pairs has the labels of the k yielded pairs, in the order yielded,
\* on the walked axis and the carried list, the source's labels of the other
\* axis, on the other axis.
C10_YieldedLabels ==
    last.op = "collect" =>
        LET keep == Kept(last.src, last.axis, last.names, last.kind = "select")
        IN  /\ last.res.ok
            /\ AxisLabels(df, last.axis)
                   = [p \in 1..Len(keep) |-> AxisLabels(last.src, last.axis)[keep[p]]]
            /\ OtherLabels(df, last.axis) = OtherLabels(last.src, last.axis)

\* Row "b" was selected from a frame with the index "a", "b": the collected
\* frame has the one row "b", not "0", and the columns of the source.
C10_Witness ==
    /\ last.op = "collect"
    /\ last.kind = "select"
    /\ last.axis = "Row"
    /\ last.src.index = <<"a", "b">>
    /\ last.names = <<"b">>
    /\ df.index = <<"b">>
    /\ df.columns = last.src.columns
    /\ Len(df.columns) >= 1

\* A view as the constructor stores it: an empty cell becomes Missing.
Stored(view) ==
    [j \in 1..Len(view) |-> IF is_empty(view[j]) THEN Missing ELSE view[j]]

\* C11: the adapter of df.append(name, data, axis) yields every pair of the
\* walked axis of df in its original order and then the one pair (name, data)
\* as its last element; when data is as long as the other axis, collecting it
\* gives a frame with the labels of the other axis unchanged, the labels of
\* the walked axis followed by name, and the existing rows / columns with
\* their cells followed by the new one.
C11_Append ==
    (last.op = "collect" /\ last.call.op = "append") =>
        LET c == last.call
            pairs == AxisPairs(df, c.axis)
            r == last.res
        IN  /\ out = pairs \o <<Some(c.name, c.data)>>
            /\ Len(c.data) = Len(OtherLabels(df, c.axis)) =>
                  /\ r.ok
                  /\ OtherLabels(r.df, c.axis) = OtherLabels(df, c.axis)
                  /\ AxisLabels(r.df, c.axis) = AxisLabels(df, c.axis) \o <<c.name>>
                  /\ AxisPairs(r.df, c.axis) =
                        pairs \o <<Some(c.name, Stored(c.data))>>

\* A column of two cells was appended to a frame of two rows and two
\* columns, and collected.
C11_Witness ==
    /\ last.op = "collect"
    /\ last.call.op = "append"
    /\ last.call.axis = "Column"
    /\ last.res.ok
    /\ Shape(df.data) = <<2, 2>>
    /\ Shape(last.res.df.data) = <<2, 3>>
    /\ last.res.df.columns[3] = last.call.name

\* The views of a sequence of pairs, and their labels.
Views(pairs) == [i \in 1..Len(pairs) |-> pairs[i].view]

Labels(pairs) == [i \in 1..Len(pairs) |-> pairs[i].label]

\* C12: the adapter of df.concat(&df_1, axis) yields every row (axis Row) or
\* column (axis Column) of df in order and then every one of df_1 in order,
\* so as many as the two frames have together, and a frame collected from it
\* has on the other axis the labels of df.
C12_Concat ==
    (last.op = "collect" /\ last.call.op = "concat") =>
        LET c == last.call
            r == last.res
        IN  /\ Views(out) = Views(AxisPairs(df, c.axis)) \o
                               Views(AxisPairs(df_1, c.axis))
            /\ Len(out) = Len(AxisLabels(df, c.axis)) + Len(AxisLabels(df_1, c.axis))
            /\ r.ok => OtherLabels(r.df, c.axis) = OtherLabels(df, c.axis)

\* C13: the labels the adapter of df.concat(&df_1, axis) yields are the labels
\* df has on that axis followed by those df_1 has on it, a label of df_1 that
\* is among those of df with "_x" appended and every other one as it is.
C13_ConcatRenaming ==
    (last.op = "collect" /\ last.call.op = "concat") =>
        LET c == last.call
            firsts == AxisLabels(df, c.axis)
            seconds == AxisLabels(df_1, c.axis)
        IN  Labels(out) = firsts \o
                [i \in 1..Len(seconds) |->
                    IF Contains(firsts, seconds[i]) THEN seconds[i] \o "_x"
                                                    ELSE seconds[i]]

\* The joins, and the operand that drives a join (the one whose rows are
\* walked) and the one that is looked up.
InnerJoins == {"inner_left_join", "inner_right_join"}

OuterJoins == {"outer_left_join", "outer_right_join"}

LeftJoins == {"inner_left_join", "outer_left_join"}

Driving(op) == IF op \in LeftJoins THEN df ELSE df_1

LookedUp(op) == IF op \in LeftJoins THEN df_1 ELSE df

\* The rows of a frame that have the label.
RowsNamed(f, label) ==
    {RowOf(f.data, i) : i \in {k \in 1..Len(f.index) : f.index[k] = label}}

\* The row a yielded item stands for in a collected join: the driving row,
\* then the matched row or as many missing values as the other operand has
\* columns.
JoinedRow(item, other) ==
    item.view \o (IF item.right.some THEN item.right.view
                  ELSE [j \in 1..Len(other.columns) |-> Missing])

\* C14: an inner join yields a combined row for exactly the rows of the
\* driving operand whose label is a row label of the other operand too, in
\* their order; each carries the cells of the driving row and the cells of a
\* row of the other operand with the same label, and the collected frame has
\* these rows.  A label that only one operand has gives no row.
C14_InnerJoin ==
    (last.op = "collect" /\ last.call.op \in InnerJoins) =>
        LET d == Driving(last.call.op)
            l == LookedUp(last.call.op)
            keep == Kept(d, "Row", l.index, TRUE)
            r == last.res
        IN  /\ Named(Labels(out)) = Named(d.index) \cap Named(l.index)
            /\ Len(out) = Len(keep)
            /\ \A k \in 1..Len(out) :
                  /\ out[k].label = d.index[keep[k]]
                  /\ out[k].view = RowOf(d.data, keep[k])
                  /\ out[k].right.some
                  /\ out[k].right.label = out[k].label
                  /\ out[k].right.view \in RowsNamed(l, out[k].label)
            /\ r.ok
            /\ r.df.index = Labels(out)
            /\ \A k \in 1..Len(out) :
                  RowOf(r.df.data, k) = out[k].view \o out[k].right.view

\* An inner left join of a frame with the rows "0" and "1" and a frame with
\* the only row "0" gave the one row "0", of the cells of both.
C14_Witness ==
    /\ last.op = "collect"
    /\ last.call.op = "inner_left_join"
    /\ df.index = <<"0", "1">>
    /\ df_1.index = <<"0">>
    /\ df.data.nc = 2
    /\ df_1.data.nc = 1
    /\ Labels(out) = <<"0">>
    /\ last.res.ok
    /\ last.res.df.data.at = <<<<11, 12, 111>>>>

\* C15: an outer join yields one combined row for every row of the driving
\* operand, in order, under the label of that row: with the cells of a row
\* of the other operand that has the label, or with None where the other
\* operand has no such row, which the collected frame fills with the missing
\* value.  A row that only the other operand has gives no row.
C15_OuterJoin ==
    (last.op = "collect" /\ last.call.op \in OuterJoins) =>
        LET d == Driving(last.call.op)
            l == LookedUp(last.call.op)
            r == last.res
        IN  /\ Len(out) = Len(d.index)
            /\ \A k \in 1..Len(out) :
                  /\ out[k].label = d.index[k]
                  /\ out[k].view = RowOf(d.data, k)
                  /\ IF d.index[k] \in Named(l.index)
                     THEN /\ out[k].right.some
                          /\ out[k].right.view \in RowsNamed(l, d.index[k])
                     ELSE out[k].right = None
            /\ r.ok
            /\ r.df.index = d.index
            /\ \A k \in 1..Len(out) : RowOf(r.df.data, k) = JoinedRow(out[k], l)

\* An outer left join of a frame with the rows "0" and "1" and a frame with
\* the only row "0" gave both rows, the second one filled with the missing
\* value.
C15_Witness ==
    /\ last.op = "collect"
    /\ last.call.op = "outer_left_join"
    /\ df.index = <<"0", "1">>
    /\ df_1.index = <<"0">>
    /\ df.data.nc = 1
    /\ df_1.data.nc = 2
    /\ last.res.ok
    /\ last.res.df.index = <<"0", "1">>
    /\ last.res.df.data.at = <<<<11, 111, 112>>, <<21, Missing, Missing>>>>

\* No label occurs twice in the list.
Distinct(labels) ==
    \A i, j \in 1..Len(labels) : labels[i] = labels[j] => i = j

\* C16, as stated: for any two frames, row labels repeated or not,
\* df.inner_left_join(&df_1) emits at most min(len(df.index),
\* len(df_1.index)) rows and df.outer_left_join(&df_1) emits exactly
\* len(df.index) rows.
C16_JoinCardinality ==
    /\ (last.op = "collect" /\ last.call.op = "inner_left_join") =>
          Len(out) <= Min(Len(df.index), Len(df_1.index))
    /\ (last.op = "collect" /\ last.call.op = "outer_left_join") =>
          Len(out) = Len(df.index)

\* C16, amended: df.inner_left_join(&df_1) emits at most len(df.index) rows,
\* and at most min(len(df.index), len(df_1.index)) rows when the row labels
\* of df are pairwise distinct; df.outer_left_join(&df_1) emits exactly
\* len(df.index) rows, row labels repeated or not.  The collected frame has
\* as many rows as were emitted.
C16_DrivingCardinality ==
    /\ (last.op = "collect" /\ last.call.op = "inner_left_join") =>
          /\ Len(out) <= Len(df.index)
          /\ Distinct(df.index) => Len(out) <= Min(Len(df.index), Len(df_1.index))
          /\ last.res.ok /\ last.res.df.data.nr = Len(out)
    /\ (last.op = "collect" /\ last.call.op = "outer_left_join") =>
          /\ Len(out) = Len(df.index)
          /\ last.res.ok /\ last.res.df.data.nr = Len(out)

\* An inner left join of a frame with two rows of one label and a frame with
\* one row of that label emitted two rows.
C16_Witness ==
    /\ last.op = "collect"
    /\ last.call.op = "inner_left_join"
    /\ df.index = <<"a", "a">>
    /\ df_1.index = <<"a">>
    /\ Len(out) = 2
    /\ last.res.ok
    /\ last.res.df.index = <<"a", "a">>

RECURSIVE WithX(_, _)
\* The label with "_x" appended k times.
WithX(label, k) == IF k = 0 THEN label ELSE WithX(label, k - 1) \o "_x"

\* The column labels handed to a join: those of the driving operand and
\* those of the other one.
FirstColumns(op) == Driving(op).columns

SecondColumns(op) == LookedUp(op).columns

FirstRow(f, label) ==
    RowOf(f.data, CHOOSE i \in 1..Len(f.index) :
                      /\ f.index[i] = label
                      /\ \A k \in 1..(i - 1) : f.index[k] # label)

IsRowOf(item, f) ==
    \E i \in 1..Len(f.index) :
        f.index[i] = item.label /\ RowOf(f.data, i) = item.view

\* C19: df.inner_right_join(&df_1) yields and collects what
\* df_1.inner_left_join(&df) does, and df.outer_right_join(&df_1) what
\* df_1.outer_left_join(&df) does; in each of the four joins every yielded
\* row has the label and the cells of a row of the driving operand (self in
\* the left joins, other in the right joins), and the columns of the driving
\* operand are the first columns of the collected frame.
C19_RightIsSwappedLeft ==
    /\ (last.op = "collect" /\ last.call.op = "inner_right_join") =>
          /\ out = Drain(inner_left_join(df_1, df))
          /\ last.res = join_as_df(inner_left_join(df_1, df))
    /\ (last.op = "collect" /\ last.call.op = "outer_right_join") =>
          /\ out = Drain(outer_left_join(df_1, df))
          /\ last.res = join_as_df(outer_left_join(df_1, df))
    /\ (last.op = "collect" /\ last.call.op \in InnerJoins \cup OuterJoins) =>
          LET d == Driving(last.call.op)
          IN  /\ \A k \in 1..Len(out) : IsRowOf(out[k], d)
              /\ last.res.ok
              /\ last.res.df.index = Labels(out)
              /\ SubSeq(last.res.df.columns, 1, Len(d.columns)) = d.columns
              /\ \A k \in 1..Len(out) :
                    SubSeq(RowOf(last.res.df.data, k), 1, Len(d.columns)) =
                        out[k].view

\* An inner right join of a frame with the rows a, b and one column with a
\* frame with the row b and two columns gave the row b, with the cells of
\* the second frame first.
C19_Witness ==
    /\ last.op = "collect"
    /\ last.call.op = "inner_right_join"
    /\ df.index = <<"a", "b">>
    /\ df_1.index = <<"b">>
    /\ df.columns = <<"a">>
    /\ df_1.columns = <<"a", "b">>
    /\ last.res.ok
    /\ last.res.df.index = <<"b">>
    /\ last.res.df.columns = <<"a", "b", "a_x">>
    /\ last.res.df.data.at = <<<<111, 112, 21>>>>

\* C20: when the operand that is looked up has a row label more than once, a
\* driving row with that label is combined with the first row that has it;
\* every driving row gives at most one output row, so that a label is
\* yielded at most as often as the driving operand has it.
C20_FirstMatch ==
    (last.op = "collect" /\ last.call.op \in InnerJoins \cup OuterJoins) =>
        LET d == Driving(last.call.op)
            l == LookedUp(last.call.op)
        IN  /\ \A k \in 1..Len(out) :
                  out[k].right.some =>
                      /\ out[k].right.view = FirstRow(l, out[k].label)
                      /\ last.res.ok
                      /\ RowOf(last.res.df.data, k) =
                            out[k].view \o FirstRow(l, out[k].label)
            /\ Len(out) <= Len(d.index)
            /\ \A label \in Named(d.index) :
                  Cardinality({k \in 1..Len(out) : out[k].label = label}) <=
                      Cardinality({i \in 1..Len(d.index) : d.index[i] = label})

\* An outer left join of a frame with the rows a, b and a frame with two
\* rows a gave two rows, the first with the cells of the first row a.
C20_Witness ==
    /\ last.op = "collect"
    /\ last.call.op = "outer_left_join"
    /\ df.index = <<"a", "b">>
    /\ df_1.index = <<"a", "a">>
    /\ df.data.nc = 1
    /\ df_1.data.nc = 1
    /\ Len(out) = 2
    /\ last.res.ok
    /\ last.res.df.data.at = <<<<11, 111>>, <<21, Missing>>>>

\* C24: to_df on a MutableDataFrame whose labels match the shape of the
\* viewed data returns Ok with a frame that has the same column labels, the
\* same index labels and the same cells.
C24_ToDf ==
    (last.op = "to_df" /\ ShapeInv(last.self)) =>
        /\ last.res.ok
        /\ last.res.df.columns = last.self.columns
        /\ last.res.df.index = last.self.index
        /\ last.res.df.data = last.self.data
        /\ df = last.res.df

\* to_df was called on a view of two rows and two columns, one of its cells
\* missing, with labels other than the default ones.
C24_Witness ==
    /\ last.op = "to_df"
    /\ ShapeInv(last.self)
    /\ Shape(last.self.data) = <<2, 2>>
    /\ last.self.data.at[1][1] = Missing
    /\ last.self.columns = <<"a", "b">>
    /\ last.self.index = <<"b", "a">>
    /\ last.res.ok

\* The positions of a view that hold a value.
Valued(view) == {k \in 1..Len(view) : view[k] # Missing /\ view[k] # NaN}

RECURSIVE SumAt(_, _)
\* The sum of the cells of a view at a set of positions.
SumAt(view, ks) ==
    IF ks = {}
    THEN 0
    ELSE LET k == CHOOSE x \in ks : TRUE
         IN  view[k] + SumAt(view, ks \ {k})

\* An aggregate built by the named operation was run to its end.
Ran(op) == last.op = "reduced" /\ last.call.op = op

\* C21: mean run to its end over an axis yields exactly one pair per label of
\* that axis, in order; the scalar of a slice with a non-missing value times
\* the number of its non-missing values is their sum, and the scalar of a
\* slice with no non-missing value is Missing.
C21_Mean ==
    Ran("mean") =>
        LET slices == AxisPairs(df, last.call.axis)
        IN  /\ Len(out) = Len(slices)
            /\ \A i \in 1..Len(slices) :
                  LET ks == Valued(slices[i].view)
                  IN  /\ out[i].label = slices[i].label
                      /\ IF ks = {}
                         THEN out[i].value = Missing
                         ELSE /\ out[i].value # Missing
                              /\ out[i].value * Cardinality(ks)
                                     = SumAt(slices[i].view, ks)

\* mean was run over the columns of a frame of two rows and two different
\* column labels whose first column has a missing cell and a value.
C21_Witness ==
    /\ Ran("mean")
    /\ last.call.axis = "Column"
    /\ Shape(df.data) = <<2, 2>>
    /\ df.columns = <<"b", "a">>
    /\ df.data.at[1][1] = Missing
    /\ Len(out) = 2
    /\ out[1].value = df.data.at[2][1]
    /\ out[2].value # df.data.at[1][2]

\* mean was run over the rows of a frame whose only cell is missing.
C21_WitnessAllMissing ==
    /\ Ran("mean")
    /\ last.call.axis = "Row"
    /\ Shape(df.data) = <<1, 1>>
    /\ df.data.at[1][1] = Missing
    /\ Len(out) = 1
    /\ out[1].value = Missing

\* An impute was run to its end.
Imputing == last.op = "imputed"

\* x is the scalar the strategy replaces the missing cells of a view with,
\* ks being the positions of the view that hold a value.
IsReplacement(strategy, view, ks, x) ==
    LET n == Cardinality(ks)
    IN  IF strategy.kind = "Mean"
        THEN x * n = SumAt(view, ks)
        ELSE IF strategy.kind = "Median"
        THEN /\ 2 * Cardinality({k \in ks : view[k] < x}) <= n
             /\ 2 * Cardinality({k \in ks : view[k] > x}) <= n
             /\ \/ \E k \in ks : view[k] = x
                \/ \E k, l \in ks : view[k] + view[l] = 2 * x
        ELSE IF strategy.kind = "Mode"
        THEN LET times(v) == Cardinality({k \in ks : view[k] = v})
             IN  /\ \E k \in ks : view[k] = x
                 /\ \A k \in ks : times(view[k]) <= times(x)
        ELSE x = strategy.value

\* C22: an impute run to its end leaves the labels and the shape of the
\* frame as they were; in every slice of the imputed axis a cell that held a
\* value keeps it, a slice with no value is left as it was, and the missing
\* cells of a slice with a value all hold the replacement scalar the
\* strategy computes from the values of that slice.
C22_Impute ==
    Imputing =>
        LET was == AxisPairs(last.before, last.call.axis)
            now == AxisPairs(df, last.call.axis)
        IN  /\ df.columns = last.before.columns
            /\ df.index = last.before.index
            /\ Shape(df.data) = Shape(last.before.data)
            /\ \A i \in 1..Len(was) :
                  LET b == was[i].view
                      a == now[i].view
                      ks == Valued(b)
                  IN  /\ Len(a) = Len(b)
                      /\ \A k \in ks : a[k] = b[k]
                      /\ ks = {} => a = b
                      /\ ks # {} =>
                           \A k \in (1..Len(b)) \ ks :
                               IsReplacement(last.call.strategy, b, ks, a[k])

\* The rows of a frame of two rows and two columns with a missing corner
\* were imputed with the mean: the corner now holds the other cell of its
\* row, which is not the other cell of its column.
C22_Witness ==
    /\ Imputing
    /\ last.call.axis = "Row"
    /\ last.call.strategy.kind = "Mean"
    /\ Shape(df.data) = <<2, 2>>
    /\ last.before.data.at[1][1] = Missing
    /\ df.data.at[1][1] = df.data.at[1][2]
    /\ df.data.at[1][1] # df.data.at[2][1]

\* The rows of a frame of one column were imputed: the row whose only cell
\* is missing is left missing.
C22_WitnessAllMissing ==
    /\ Imputing
    /\ last.call.axis = "Row"
    /\ last.call.strategy.kind = "Constant"
    /\ last.call.strategy.value # Missing
    /\ Shape(df.data) = <<2, 1>>
    /\ last.before.data.at[1][1] = Missing
    /\ df.data.at[1][1] = Missing

OtherConcat ==
    IF last.ty = "f64" THEN concat(df, df_1, last.axis)
                       ELSE concat_f64(df, df_1, last.axis)

\* C25: the adapter df.concat(&df_1, axis) builds is the same whichever of
\* the two implementations of Operations builds it: the same iterator over
\* df, the same iterator over df_1, the same label list and the same axis
\* tag.
C25_SameConcat ==
    (last.op = "concat" /\ pipe.kind = "concat") =>
        /\ pipe.data = OtherConcat.data
        /\ pipe.second = OtherConcat.second
        /\ pipe.other = OtherConcat.other
        /\ pipe.axis = OtherConcat.axis

\* The axis the views of an iterator lie along: its views are the rows of
\* the frame or its columns.
Walks(it, f, axis) ==
    /\ it.names = AxisLabels(f, axis)
    /\ it.data = Views(AxisPairs(f, axis))

\* C26: an aggregate or impute adapter built for an axis holds the iterator
\* over that axis of the frame, the iterator is tagged with that axis and
\* carries the labels of the other axis, and the adapter itself carries
\* those labels and is tagged with that axis.
C26_AxisTags ==
    (pipe.kind \in {"mean", "max", "min", "stdev", "impute"}) =>
        /\ Walks(pipe.data, df, last.axis)
        /\ pipe.data.axis = last.axis
        /\ pipe.data.other = OtherLabels(df, last.axis)
        /\ pipe.other = OtherLabels(df, last.axis)
        /\ pipe.axis = last.axis

\* C27: an aggregate built for an axis and run to its end yields one pair
\* per label of that axis, whichever of sumdf, mean, maxdf, min and stdev
\* built it: the labels mean yields for the same frame and axis.
C27_SameAxis ==
    (last.op = "reduced") =>
        Labels(out) = Labels(AggregateDrain(mean(df, last.call.axis)))

=============================================================================
